---- MODULE Spec2Model ----
(***************************************************************************)
(* A model of src/worker.js: the two fetch handlers of the image           *)
(* generation worker (lines 59-126 and 128-206), their dimension           *)
(* resolvers (pickDims, parseDim, parseAspectRatio) and the JavaScript     *)
(* value conversions those resolvers rely on.                              *)
(*                                                                         *)
(* JavaScript values are records [t, k, n, d, s]:                          *)
(*   t  the typeof tag ("undefined", "null", "boolean", "number",          *)
(*      "string", "object"),                                               *)
(*   k  for a number, "fin" (the rational n/d, d > 0, in lowest terms),    *)
(*      "nan", "inf" (+Infinity) or "ninf" (-Infinity),                    *)
(*   n  for a boolean, 1 (true) or 0 (false),                              *)
(*   s  the text of a string.                                              *)
(* Finite numbers are exact rationals; the inputs drawn below are ones on  *)
(* which IEEE double arithmetic takes the same rounding decisions.         *)
(***************************************************************************)
EXTENDS Integers, Sequences, FiniteSets, TLC

VARIABLES variant, req, pc, body, call, aiCalls, bodyReads, outcome, resp

vars == <<variant, req, pc, body, call, aiCalls, bodyReads, outcome, resp>>

(***************************************************************************)
(* Program constants.                                                      *)
(***************************************************************************)
DEFAULT_W == 1024
DEFAULT_H == 1024
MIN_DIM == 256
MAX_DIM == 2048
ALIGN == 8
MAX_PROMPT == 800
DEFAULT_LONG_EDGE == 1024
FALLBACK_DIM == 1024
DEFAULT_MODEL == "@cf/stabilityai/stable-diffusion-xl-base-1.0"

MODEL_WHITELIST ==
  { "@cf/stabilityai/stable-diffusion-xl-base-1.0",
    "@cf/blackforestlabs/ux-1-schnell",
    "@cf/bytedance/stable-diffusion-xl-lightning",
    "@cf/lykon/dreamshaper-8-lcm",
    "@cf/runwayml/stable-diffusion-v1-5-img2img",
    "@cf/runwayml/stable-diffusion-v1-5-inpainting" }

(***************************************************************************)
(* JavaScript values.                                                      *)
(***************************************************************************)
Abs(i) == IF i < 0 THEN -i ELSE i

RECURSIVE Gcd(_, _)
Gcd(a, b) == IF b = 0 THEN a ELSE Gcd(b, a % b)

JsVal(t, k, n, d, s) == [t |-> t, k |-> k, n |-> n, d |-> d, s |-> s]

Undefined == JsVal("undefined", "", 0, 1, "")
Null == JsVal("null", "", 0, 1, "")
Bool(b) == JsVal("boolean", "", IF b THEN 1 ELSE 0, 1, "")
Str(s) == JsVal("string", "", 0, 1, s)
Obj == JsVal("object", "", 0, 1, "")
NaN == JsVal("number", "nan", 0, 1, "")
Inf == JsVal("number", "inf", 0, 1, "")
NegInf == JsVal("number", "ninf", 0, 1, "")

Reduced(n, d, g) ==
  JsVal("number", "fin", (IF d < 0 THEN -1 ELSE 1) * (n \div g), Abs(d) \div g, "")

\* The finite number n/d (d # 0), in lowest terms with a positive denominator.
Rat(n, d) == Reduced(n, d, Gcd(Abs(n), Abs(d)))

Num(i) == Rat(i, 1)

IsNullish(v) == v.t \in {"undefined", "null"}

\* ToBoolean: what `x || y`, `x && y` and `!x` test.
Truthy(v) ==
  CASE v.t = "undefined" -> FALSE
    [] v.t = "null" -> FALSE
    [] v.t = "boolean" -> v.n = 1
    [] v.t = "number" -> ~(v.k = "nan" \/ (v.k = "fin" /\ v.n = 0))
    [] v.t = "string" -> v.s # ""
    [] OTHER -> TRUE

(***************************************************************************)
(* Strings: String.prototype.trim, toLowerCase, includes, split.           *)
(***************************************************************************)
CharAt(s, i) == SubSeq(s, i, i)

IsSpace(c) == c \in {" ", "\t", "\n"}

RECURSIVE TrimLeft(_)
TrimLeft(s) ==
  IF s # "" /\ IsSpace(CharAt(s, 1)) THEN TrimLeft(SubSeq(s, 2, Len(s))) ELSE s

RECURSIVE TrimRight(_)
TrimRight(s) ==
  IF s # "" /\ IsSpace(CharAt(s, Len(s)))
  THEN TrimRight(SubSeq(s, 1, Len(s) - 1)) ELSE s

Trim(s) == TrimRight(TrimLeft(s))

LowerChar(c) ==
  CASE c = "A" -> "a" [] c = "B" -> "b" [] c = "C" -> "c" [] c = "D" -> "d"
    [] c = "E" -> "e" [] c = "F" -> "f" [] c = "G" -> "g" [] c = "H" -> "h"
    [] c = "I" -> "i" [] c = "J" -> "j" [] c = "K" -> "k" [] c = "L" -> "l"
    [] c = "M" -> "m" [] c = "N" -> "n" [] c = "O" -> "o" [] c = "P" -> "p"
    [] c = "Q" -> "q" [] c = "R" -> "r" [] c = "S" -> "s" [] c = "T" -> "t"
    [] c = "U" -> "u" [] c = "V" -> "v" [] c = "W" -> "w" [] c = "X" -> "x"
    [] c = "Y" -> "y" [] c = "Z" -> "z" [] OTHER -> c

RECURSIVE ToLowerCase(_)
ToLowerCase(s) ==
  IF s = "" THEN ""
  ELSE LowerChar(CharAt(s, 1)) \o ToLowerCase(SubSeq(s, 2, Len(s)))

Includes(s, sub) ==
  \E i \in 1..(Len(s) - Len(sub) + 1) : SubSeq(s, i, i + Len(sub) - 1) = sub

IsDelim(c) == c \in {":", "/"}

HasDelim(s) == \E i \in 1..Len(s) : IsDelim(CharAt(s, i))

\* Index of the first delimiter of s at or after position i, or Len(s) + 1.
RECURSIVE NextDelim(_, _)
NextDelim(s, i) ==
  IF i > Len(s) \/ IsDelim(CharAt(s, i)) THEN i ELSE NextDelim(s, i + 1)

\* s.split(/[:/]/): the pieces between the delimiters, as a sequence.
RECURSIVE Split(_)
Split(s) ==
  LET j == NextDelim(s, 1)
  IN  IF j > Len(s) THEN <<s>>
      ELSE <<SubSeq(s, 1, j - 1)>> \o Split(SubSeq(s, j + 1, Len(s)))

(***************************************************************************)
(* Number(v): ToNumber, with StringToNumber for decimal literals.          *)
(***************************************************************************)
IsDigit(c) == c \in {"0", "1", "2", "3", "4", "5", "6", "7", "8", "9"}

DigitVal(c) ==
  CASE c = "0" -> 0 [] c = "1" -> 1 [] c = "2" -> 2 [] c = "3" -> 3
    [] c = "4" -> 4 [] c = "5" -> 5 [] c = "6" -> 6 [] c = "7" -> 7
    [] c = "8" -> 8 [] OTHER -> 9

AllDigits(s) == \A i \in 1..Len(s) : IsDigit(CharAt(s, i))

RECURSIVE DigitsVal(_)
DigitsVal(s) ==
  IF s = "" THEN 0
  ELSE 10 * DigitsVal(SubSeq(s, 1, Len(s) - 1)) + DigitVal(CharAt(s, Len(s)))

RECURSIVE Pow10(_)
Pow10(e) == IF e = 0 THEN 1 ELSE 10 * Pow10(e - 1)

\* Index of the first "." of s at or after position i, or Len(s) + 1.
RECURSIVE NextDot(_, _)
NextDot(s, i) ==
  IF i > Len(s) \/ CharAt(s, i) = "." THEN i ELSE NextDot(s, i + 1)

\* The decimal literal with integer part ip and fraction part fp.
DecimalToNumber(ip, fp) ==
  IF (ip = "" /\ fp = "") \/ ~AllDigits(ip) \/ ~AllDigits(fp) THEN NaN
  ELSE Rat(DigitsVal(ip) * Pow10(Len(fp)) + DigitsVal(fp), Pow10(Len(fp)))

\* s cut at position j, that of its first "." (Len(s) + 1 if it has none).
CutAtDot(s, j) == DecimalToNumber(SubSeq(s, 1, j - 1), SubSeq(s, j + 1, Len(s)))

\* An unsigned literal: digits, digits., digits.digits, .digits or Infinity.
UnsignedToNumber(s) == IF s = "Infinity" THEN Inf ELSE CutAtDot(s, NextDot(s, 1))

Negate(x) ==
  CASE x.k = "fin" -> Rat(-x.n, x.d)
    [] x.k = "inf" -> NegInf
    [] x.k = "ninf" -> Inf
    [] OTHER -> NaN

WithSign(neg, x) == IF neg THEN Negate(x) ELSE x

\* A trimmed numeric string: an optional sign, then an unsigned literal.
SignedToNumber(t) ==
  IF t = "" THEN Num(0)
  ELSE WithSign(CharAt(t, 1) = "-",
                UnsignedToNumber(IF CharAt(t, 1) \in {"-", "+"}
                                 THEN SubSeq(t, 2, Len(t)) ELSE t))

\* StringToNumber: surrounding white space is dropped, the empty string is 0.
StringToNumber(s) == SignedToNumber(Trim(s))

Number(v) ==
  CASE v.t = "undefined" -> NaN
    [] v.t = "null" -> Num(0)
    [] v.t = "boolean" -> Num(v.n)
    [] v.t = "number" -> v
    [] v.t = "string" -> StringToNumber(v.s)
    [] OTHER -> NaN

(***************************************************************************)
(* Arithmetic on numbers.                                                  *)
(***************************************************************************)
IsFinite(x) == x.t = "number" /\ x.k = "fin"

IsInteger(x) == IsFinite(x) /\ x.d = 1

\* x > 0 for numbers x (false for NaN).
Positive(x) == x.k = "inf" \/ (x.k = "fin" /\ x.n > 0)

\* x <= y for numbers neither of which is NaN.
Leq(x, y) ==
  CASE x.k = "ninf" -> TRUE
    [] y.k = "inf" -> TRUE
    [] x.k = "inf" -> FALSE
    [] y.k = "ninf" -> FALSE
    [] OTHER -> x.n * y.d <= y.n * x.d

\* x / r and x * r for a finite r > 0.
Div(x, r) == IF x.k = "fin" THEN Rat(x.n * r.d, x.d * r.n) ELSE x

Mul(x, r) == IF x.k = "fin" THEN Rat(x.n * r.n, x.d * r.d) ELSE x

\* Math.round: the nearest integer, halves towards +Infinity.
Round(x) == IF x.k = "fin" THEN Num((2 * x.n + x.d) \div (2 * x.d)) ELSE x

\* Math.max and Math.min: NaN if either argument is NaN.
MathMax(x, y) ==
  IF x.k = "nan" \/ y.k = "nan" THEN NaN ELSE IF Leq(x, y) THEN y ELSE x

MathMin(x, y) ==
  IF x.k = "nan" \/ y.k = "nan" THEN NaN ELSE IF Leq(x, y) THEN x ELSE y

(***************************************************************************)
(* The dimension resolvers.                                                *)
(***************************************************************************)
\* clamp(n, lo, hi): Math.min(hi, Math.max(lo, n)); Math.max converts n.
clamp(n, lo, hi) == MathMin(hi, MathMax(lo, Number(n)))

\* x || y
OrElse(x, y) == IF Truthy(x) THEN x ELSE y

\* x ?? y
Coalesce(x, y) == IF IsNullish(x) THEN y ELSE x

\* Number.isFinite(n) && n > 0 ? n : null
positiveFinite(n) == IF IsFinite(n) /\ Positive(n) THEN n ELSE Null

\* Number.isFinite(a) && Number.isFinite(b) && a > 0 && b > 0 ? a / b : null
ratioOf(a, b) ==
  IF IsFinite(a) /\ IsFinite(b) /\ Positive(a) /\ Positive(b)
  THEN Div(a, b) ELSE Null

\* const [a, b] = s.split(/[:/]/).map(Number)
ratioOfParts(parts) == ratioOf(Number(Str(parts[1])), Number(Str(parts[2])))

\* parseAspectRatio from `const s = ar.trim()` on.
ratioOfText(s) ==
  IF s = "" THEN Null
  ELSE IF HasDelim(s) THEN ratioOfParts(Split(s))
  ELSE positiveFinite(Number(Str(s)))

\* parseAspectRatio (lines 10-22, and the same text at lines 238-248):
\* a number, or Null.
parseAspectRatio(ar) == IF ar.t # "string" THEN Null ELSE ratioOfText(Trim(ar.s))

\* Lines 53-56: w = clamp(w || DEFAULT_W, ...), h = clamp(h || DEFAULT_H, ...).
finalDims1(w, h) ==
  [width |-> clamp(OrElse(w, Num(DEFAULT_W)), Num(MIN_DIM), Num(MAX_DIM)),
   height |-> clamp(OrElse(h, Num(DEFAULT_H)), Num(MIN_DIM), Num(MAX_DIM))]

\* Explicit dimensions with the two sides exchanged.
explicitDims1_Swapped(w, h) ==
  [width |-> clamp(h, Num(MIN_DIM), Num(MAX_DIM)),
   height |-> clamp(w, Num(MIN_DIM), Num(MAX_DIM))]

\* Lines 29-34: both dimensions given as positive integers.
explicitDims1(w, h) ==
  [width |-> clamp(w, Num(MIN_DIM), Num(MAX_DIM)),
   height |-> clamp(h, Num(MIN_DIM), Num(MAX_DIM))]

\* Lines 26-56 of pickDims, with w = Number(width), h = Number(height),
\* ar = parseAspectRatio(aspectRatio) || 1 and longEdge the defaulted argument.
pickDimsFrom(w, h, ar, longEdge) ==
  IF IsInteger(w) /\ IsInteger(h) /\ Positive(w) /\ Positive(h)
  THEN explicitDims1(w, h)
  ELSE IF IsInteger(w) /\ Positive(w) THEN finalDims1(w, Round(Div(w, ar)))
  ELSE IF IsInteger(h) /\ Positive(h) THEN finalDims1(Round(Mul(h, ar)), h)
  ELSE IF Truthy(ar)
  THEN IF Leq(Num(1), ar)
       THEN finalDims1(longEdge, Round(Div(Number(longEdge), ar)))
       ELSE finalDims1(Round(Mul(Number(longEdge), ar)), longEdge)
  ELSE finalDims1(w, h)

\* pickDims({ width, height, aspectRatio, longEdge = 1024 }) of the first
\* handler: [width, height], two numbers.
pickDims(width, height, aspectRatio, longEdge) ==
  pickDimsFrom(Number(width), Number(height),
               OrElse(parseAspectRatio(aspectRatio), Num(1)),
               IF longEdge.t = "undefined" THEN Num(DEFAULT_LONG_EDGE) ELSE longEdge)

\* Line 234: Math.max(align, Math.round(clamped / align) * align).
alignDim(clamped) ==
  MathMax(Num(ALIGN), Mul(Round(Div(clamped, Num(ALIGN))), Num(ALIGN)))

\* Lines 231-234 of parseDim, n being the converted value.
parseDimNumber(n) ==
  IF ~IsFinite(n) \/ ~Positive(n) THEN Null
  ELSE alignDim(MathMin(Num(MAX_DIM), MathMax(Num(MIN_DIM), Round(n))))

\* parseDim(v) with its default options { min = 256, max = 2048, align = 8 }:
\* a number, or Null.
parseDim(v) ==
  IF IsNullish(v) THEN Null
  ELSE parseDimNumber(Number(IF v.t = "string" THEN Str(Trim(v.s)) ELSE v))

\* Lines 184-185: w = w || 1024, h = h || 1024.
finalDims2(w, h) ==
  [width |-> OrElse(w, Num(FALLBACK_DIM)), height |-> OrElse(h, Num(FALLBACK_DIM))]

\* Lines 172-185, with w, h, ar and longEdge as lines 166-169 leave them.
resolveDims2From(w, h, ar, longEdge) ==
  IF Truthy(w) /\ Truthy(h) THEN finalDims2(w, h)
  ELSE IF Truthy(w) /\ ~Truthy(h) THEN finalDims2(w, parseDim(Round(Div(w, ar))))
  ELSE IF ~Truthy(w) /\ Truthy(h) THEN finalDims2(parseDim(Round(Mul(h, ar))), h)
  ELSE IF Leq(Num(1), ar)
  THEN finalDims2(parseDim(longEdge), parseDim(Round(Div(longEdge, ar))))
  ELSE finalDims2(parseDim(Round(Mul(longEdge, ar))), parseDim(longEdge))

\* The dimension block of the second handler (lines 166-185).
resolveDims2(width, height, aspectRatio, longEdge) ==
  resolveDims2From(parseDim(width), parseDim(height),
                   Coalesce(parseAspectRatio(aspectRatio), Num(1)),
                   Coalesce(parseDim(longEdge), Num(DEFAULT_LONG_EDGE)))

(***************************************************************************)
(* Responses.  json(data, status, extraHeaders) and the bare responses;    *)
(* cors() copies the status and adds fixed headers, so it is the identity  *)
(* on what is recorded here.                                               *)
(***************************************************************************)
Response(status, error, allow, wwwAuth, ctype) ==
  [status |-> status, error |-> error, allow |-> allow,
   wwwAuth |-> wwwAuth, ctype |-> ctype]

NoResp == Response(0, "", "", "", "")

json(error, status, allow, wwwAuth) ==
  Response(status, error, allow, wwwAuth, "application/json")

Preflight == Response(204, "", "", "", "")

Image == Response(200, "", "", "", "image/png")

GenerationFailed == json("Failed to generate image", 500, "", "")

(***************************************************************************)
(* The access gate.                                                        *)
(***************************************************************************)
API_KEY == "k3y"

StartsWith(s, pre) == Len(s) >= Len(pre) /\ SubSeq(s, 1, Len(pre)) = pre

\* parseBearer(header): the token after "Bearer ", or "" when there is none.
parseBearer(header) ==
  IF StartsWith(header, "Bearer ")
  THEN Trim(SubSeq(header, Len("Bearer ") + 1, Len(header))) ELSE ""

\* safeEqual(a, b): equality, computed in constant time.
safeEqual(a, b) == a = b

\* A gate that checks the path and forgets the method.
routeAllowed1_AnyMethod(method, path) == path = "/"

\* Line 64, negated: the request may go on to authentication.
routeAllowed1(method, path) == ~(path # "/" \/ method # "POST")

\* Lines 68-69: the token of the Authorization header ("" for none).
bearerToken1(auth) == parseBearer(OrElse(auth, Str("")).s)

\* A gate that lets every Authorization header through.
authorized2_Skipped(auth) == TRUE

\* Line 140, negated.
authorized2(auth) == auth = Str("Bearer " \o API_KEY)

\* Line 145, negated.
routeAllowed2(method, path) == ~(method # "POST" \/ path # "/")

\* Lines 74-75 and 151-152, negated.
isJson(ctype) ==
  Includes(ToLowerCase(OrElse(ctype, Str("")).s), "application/json")

(***************************************************************************)
(* Body validation.                                                        *)
(***************************************************************************)
\* Lines 84-87: the status that rejects the prompt, or 0.
promptStatus1(prompt) ==
  IF prompt.t # "string" \/ Trim(prompt.s) = "" THEN 400
  ELSE IF Len(Trim(prompt.s)) > MAX_PROMPT THEN 413
  ELSE 0

\* Lines 157-158: (body?.prompt || "").trim() and the status that ends the
\* request, or 0; .trim() of a truthy non-string throws into the catch.
promptStatus2(prompt) ==
  LET p == OrElse(prompt, Str(""))
  IN  IF p.t # "string" THEN 500
      ELSE IF Trim(p.s) = "" THEN 400
      ELSE 0

\* Lines 97-99.
selectModel1(model) ==
  IF model.t = "string" /\ model.s \in MODEL_WHITELIST THEN model.s
  ELSE DEFAULT_MODEL

\* Lines 161-163.
selectModel2(model) == IF model.t = "string" THEN model.s ELSE DEFAULT_MODEL

Call(made, model, prompt, width, height) ==
  [made |-> made, model |-> model, prompt |-> prompt,
   width |-> width, height |-> height]

NoCall == Call(FALSE, "", "", Undefined, Undefined)

\* env.AI.run(model, { prompt, width: dims.width, height: dims.height })
CallWith(model, prompt, dims) == Call(TRUE, model, prompt, dims.width, dims.height)

Body(kind, prompt, model, width, height, aspectRatio, longEdge) ==
  [kind |-> kind, prompt |-> prompt, model |-> model, width |-> width,
   height |-> height, aspectRatio |-> aspectRatio, longEdge |-> longEdge]

NoBody ==
  Body("none", Undefined, Undefined, Undefined, Undefined, Undefined, Undefined)

(***************************************************************************)
(* Inputs.                                                                 *)
(***************************************************************************)
\* Aspect ratios "a:b" are drawn for a, b in 0..MaxRatioTerm.
MaxRatioTerm == 3

\* Prompts are drawn with up to MAX_PROMPT + MaxOver characters.
MaxOver == 1

DigitStr(i) ==
  CASE i = 0 -> "0" [] i = 1 -> "1" [] i = 2 -> "2" [] i = 3 -> "3"
    [] i = 4 -> "4" [] i = 5 -> "5" [] i = 6 -> "6" [] i = 7 -> "7"
    [] i = 8 -> "8" [] OTHER -> "9"

RECURSIVE ToStr(_)
ToStr(i) == IF i < 10 THEN DigitStr(i) ELSE ToStr(i \div 10) \o DigitStr(i % 10)

RECURSIVE Rep(_, _)
Rep(c, k) ==
  IF k = 0 THEN ""
  ELSE LET h == Rep(c, k \div 2)
       IN  IF k % 2 = 0 THEN h \o h ELSE h \o h \o c

Methods == {"GET", "POST", "OPTIONS"}

Paths == {"/", "/x"}

AuthHeaders ==
  { Null, Str(""), Str("Bearer " \o API_KEY), Str("Bearer wrong"),
    Str("Basic " \o API_KEY), Str("Bearer"), Str(API_KEY) }

ContentTypes ==
  { Null, Str("application/json"), Str("Application/JSON; charset=utf-8"),
    Str("text/plain") }

Requests ==
  [method : Methods, path : Paths, auth : AuthHeaders, ctype : ContentTypes]

Prompts ==
  { Undefined, Null, Num(0), Num(123), Bool(TRUE), Obj, Str(""), Str("   "),
    Str(" a cat "), Str(" " \o Rep("a", MAX_PROMPT) \o " ") }
  \cup { Str(Rep("a", MAX_PROMPT + k)) : k \in 1..MaxOver }

Models ==
  { Undefined, Null, Num(7), Str(""), Str(DEFAULT_MODEL),
    Str("@cf/lykon/dreamshaper-8-lcm"), Str("not-a-real-model") }

Widths ==
  { Undefined, Null, Num(0), Num(-5), Num(100), Num(256), Num(300), Num(1920),
    Num(4096), Rat(601, 2), Str("512"), Str("abc") }

Heights ==
  { Undefined, Num(0), Num(260), Num(1080), Num(2048), Num(4096),
    Rat(601, 2), Str(" 512 ") }

AspectRatios ==
  { Str(ToStr(a) \o ":" \o ToStr(b)) : a, b \in 0..MaxRatioTerm }
  \cup { Undefined, Num(2), Str(""), Str("abc"), Str("16:9"), Str("9/16"),
         Str(" 4/3 "), Str("1.5"), Str("5000"), Str("1:5000") }

LongEdges ==
  { Undefined, Null, Num(0), Num(-5), Num(100), Num(1920), Num(4096),
    Rat(601, 2), Inf, Str("512"), Str("abc") }

\* request.json(): a rejection, the JSON null, or an object with these fields.
Bodies ==
  { Body("invalid", Undefined, Undefined, Undefined, Undefined, Undefined, Undefined),
    Body("null", Undefined, Undefined, Undefined, Undefined, Undefined, Undefined) }
  \cup { Body("object", p, m, Undefined, Undefined, Undefined, Undefined) :
           p \in Prompts, m \in Models }
  \cup { Body("object", Str("x"), Undefined, w, h, a, l) :
           w \in Widths, h \in Heights, a \in AspectRatios, l \in LongEdges }

Outcomes == {"resolved", "rejected", "cancelled"}

(***************************************************************************)
(* The handlers, one action per stretch of code between two awaits.        *)
(***************************************************************************)
Init ==
  /\ variant \in {1, 2}
  /\ req \in Requests
  /\ pc = "start"
  /\ body = NoBody
  /\ call = NoCall
  /\ aiCalls = 0
  /\ bodyReads = 0
  /\ outcome = ""
  /\ resp = NoResp

Reply(r) == resp' = r /\ pc' = "done"

\* First handler, lines 61-70: up to the await of safeEqual.
Gate1 ==
  /\ pc = "start" /\ variant = 1
  /\ IF req.method = "OPTIONS" THEN Reply(Preflight)
     ELSE IF ~routeAllowed1(req.method, req.path)
     THEN Reply(json("Method not allowed", 405, "POST, OPTIONS", ""))
     ELSE IF bearerToken1(req.auth) = ""
     THEN Reply(json("Unauthorized", 401, "", "Bearer realm=\"service\""))
     ELSE pc' = "auth" /\ resp' = resp
  /\ UNCHANGED <<variant, req, body, call, aiCalls, bodyReads, outcome>>

\* First handler, lines 70-80: from safeEqual's answer to the call of
\* request.json().
Auth1 ==
  /\ pc = "auth" /\ variant = 1
  /\ IF ~safeEqual(bearerToken1(req.auth), API_KEY)
     THEN Reply(json("Unauthorized", 401, "", "Bearer realm=\"service\""))
          /\ bodyReads' = bodyReads
     ELSE IF ~isJson(req.ctype)
     THEN Reply(json("Unsupported Media Type, expected application/json", 415, "", ""))
          /\ bodyReads' = bodyReads
     ELSE pc' = "json" /\ resp' = resp /\ bodyReads' = bodyReads + 1
  /\ UNCHANGED <<variant, req, body, call, aiCalls, outcome>>

\* First handler, lines 80-110: from the body to the call of env.AI.run.
Json1 ==
  /\ pc = "json" /\ variant = 1
  /\ \E b \in Bodies :
       /\ body' = b
       /\ IF b.kind = "invalid"
          THEN Reply(json("Invalid JSON body", 400, "", ""))
               /\ UNCHANGED <<call, aiCalls>>
          ELSE IF promptStatus1(b.prompt) = 400
          THEN Reply(json("Prompt is required (non-empty string)", 400, "", ""))
               /\ UNCHANGED <<call, aiCalls>>
          ELSE IF promptStatus1(b.prompt) = 413
          THEN Reply(json("Prompt too long (max 800 chars)", 413, "", ""))
               /\ UNCHANGED <<call, aiCalls>>
          ELSE /\ call' = CallWith(selectModel1(b.model), Trim(b.prompt.s),
                      pickDims(b.width, b.height, b.aspectRatio, b.longEdge))
               /\ aiCalls' = aiCalls + 1
               /\ pc' = "run"
               /\ resp' = resp
  /\ UNCHANGED <<variant, req, bodyReads, outcome>>

\* A handler that calls env.AI.run again when it fails.
Run1_Retry ==
  /\ pc = "run" /\ variant = 1
  /\ \E o \in Outcomes :
       /\ outcome' = o
       /\ IF o = "resolved" \/ aiCalls >= 2
          THEN Reply(IF o = "resolved" THEN Image ELSE GenerationFailed)
               /\ aiCalls' = aiCalls
          ELSE pc' = pc /\ resp' = resp /\ aiCalls' = aiCalls + 1
  /\ UNCHANGED <<variant, req, body, call, bodyReads>>

\* First handler, lines 106-124: env.AI.run settles.
Run1 ==
  /\ pc = "run" /\ variant = 1
  /\ \E o \in Outcomes :
       /\ outcome' = o
       /\ Reply(IF o = "resolved" THEN Image ELSE GenerationFailed)
  /\ UNCHANGED <<variant, req, body, call, aiCalls, bodyReads>>

\* Second handler, lines 130-156: up to the call of request.json().
Gate2 ==
  /\ pc = "start" /\ variant = 2
  /\ IF req.method = "OPTIONS" THEN Reply(Preflight) /\ bodyReads' = bodyReads
     ELSE IF ~authorized2(req.auth)
     THEN Reply(json("Unauthorized", 401, "", "")) /\ bodyReads' = bodyReads
     ELSE IF ~routeAllowed2(req.method, req.path)
     THEN Reply(json("Not allowed", 405, "POST, OPTIONS", ""))
          /\ bodyReads' = bodyReads
     ELSE IF ~isJson(req.ctype)
     THEN Reply(json("Unsupported Media Type, expected application/json", 415, "", ""))
          /\ bodyReads' = bodyReads
     ELSE pc' = "json" /\ resp' = resp /\ bodyReads' = bodyReads + 1
  /\ UNCHANGED <<variant, req, body, call, aiCalls, outcome>>

\* Second handler, lines 156-192: from the body to the call of env.AI.run;
\* a rejected request.json() and a throwing .trim() land in the catch.
Json2 ==
  /\ pc = "json" /\ variant = 2
  /\ \E b \in Bodies :
       /\ body' = b
       /\ IF b.kind = "invalid" \/ promptStatus2(b.prompt) = 500
          THEN Reply(GenerationFailed) /\ UNCHANGED <<call, aiCalls>>
          ELSE IF promptStatus2(b.prompt) = 400
          THEN Reply(json("Prompt is required", 400, "", ""))
               /\ UNCHANGED <<call, aiCalls>>
          ELSE /\ call' = CallWith(selectModel2(b.model),
                      Trim(OrElse(b.prompt, Str("")).s),
                      resolveDims2(b.width, b.height, b.aspectRatio, b.longEdge))
               /\ aiCalls' = aiCalls + 1
               /\ pc' = "run"
               /\ resp' = resp
  /\ UNCHANGED <<variant, req, bodyReads, outcome>>

\* Second handler, lines 188-204: env.AI.run settles.
Run2 ==
  /\ pc = "run" /\ variant = 2
  /\ \E o \in Outcomes :
       /\ outcome' = o
       /\ Reply(IF o = "resolved" THEN Image ELSE GenerationFailed)
  /\ UNCHANGED <<variant, req, body, call, aiCalls, bodyReads>>

Next == Gate1 \/ Auth1 \/ Json1 \/ Run1 \/ Gate2 \/ Json2 \/ Run2

Spec == Init /\ [][Next]_vars

(***************************************************************************)
(* Vocabulary of the properties.                                           *)
(***************************************************************************)
PostRoot == req.method = "POST" /\ req.path = "/"

OptionsRoot == req.method = "OPTIONS" /\ req.path = "/"

HasValidToken == req.auth = Str("Bearer " \o API_KEY)

\* x is an integer within [MIN_DIM, MAX_DIM].
InRange(x) ==
  x.t = "number" /\ x.k = "fin" /\ x.d = 1 /\ x.n >= MIN_DIM /\ x.n <= MAX_DIM

\* m is a multiple of 8 nearest to the integer x.
NearestAligned(m, x) ==
  m.t = "number" /\ m.k = "fin" /\ m.d = 1 /\ m.n % 8 = 0 /\ Abs(m.n - x.n) <= 4

\* A JSON number that is a positive integer.
PositiveInteger(v) == v.t = "number" /\ v.k = "fin" /\ v.d = 1 /\ v.n > 0

\* The prompt of the body is a string that trimming leaves non-empty.
PromptPresent == body.prompt.t = "string" /\ Trim(body.prompt.s) # ""

PromptTooLong == PromptPresent /\ Len(Trim(body.prompt.s)) > 800

(***************************************************************************)
(* C1: whatever the sizing fields of the body, each handler passes the     *)
(* backend a width and a height that are integers in [256, 2048].          *)
(***************************************************************************)
C1_DimsIntegersInRange ==
  call.made => InRange(call.width) /\ InRange(call.height)

(***************************************************************************)
(* C2: the model passed to env.AI.run is a member of the allow-list: the   *)
(* requested model if it is in the list, the default model otherwise, and  *)
(* a request is never failed over its model.                               *)
(***************************************************************************)
C2_ModelAllowListed ==
  /\ call.made =>
       /\ call.model \in MODEL_WHITELIST
       /\ call.model = IF body.model.t = "string" /\ body.model.s \in MODEL_WHITELIST
                       THEN body.model.s ELSE DEFAULT_MODEL
  /\ (pc = "done" /\ body.kind = "object" /\ PromptPresent /\ ~PromptTooLong) =>
       call.made

(***************************************************************************)
(* C3: the body is read and the backend invoked only for a POST to "/"     *)
(* carrying the configured token; a POST to "/" with any other             *)
(* Authorization header ends 401 with no body read and no backend call.    *)
(***************************************************************************)
C3_GateBeforeBody ==
  /\ (bodyReads > 0 \/ aiCalls > 0) => PostRoot /\ HasValidToken
  /\ (pc = "done" /\ PostRoot /\ ~HasValidToken) =>
       resp.status = 401 /\ bodyReads = 0 /\ aiCalls = 0

C3_Witness == bodyReads = 1 /\ aiCalls = 1 /\ PostRoot /\ HasValidToken

(***************************************************************************)
(* C4, as claimed: every request that is neither POST "/" nor OPTIONS "/"  *)
(* is answered 405 with Allow: POST, OPTIONS, and only OPTIONS "/" is      *)
(* answered 204.                                                           *)
(***************************************************************************)
C4_Original ==
  pc = "done" =>
    /\ (~PostRoot /\ ~OptionsRoot) =>
         resp.status = 405 /\ resp.allow = "POST, OPTIONS"
    /\ resp.status = 204 => OptionsRoot

(***************************************************************************)
(* C4, amended: every OPTIONS request, whatever its path, is answered 204, *)
(* and only OPTIONS requests are.  Any other request that is not POST "/"  *)
(* is answered 405 with Allow: POST, OPTIONS by the first handler; the     *)
(* second handler checks the Authorization header first and answers 405    *)
(* with that header only when the token is the configured one, 401         *)
(* otherwise.                                                              *)
(***************************************************************************)
C4_Amended ==
  pc = "done" =>
    /\ (resp.status = 204) <=> (req.method = "OPTIONS")
    /\ (req.method # "OPTIONS" /\ ~PostRoot) =>
         IF variant = 1 \/ HasValidToken
         THEN resp.status = 405 /\ resp.allow = "POST, OPTIONS"
         ELSE resp.status = 401

C4_Witness ==
  pc = "done" /\ req.method = "GET" /\ req.path = "/" /\ ~HasValidToken
  /\ variant = 2 /\ resp.status = 401

(***************************************************************************)
(* C5: an authenticated POST to "/" with a JSON content type whose body    *)
(* does not parse is answered 400 "Invalid JSON body", and the backend is  *)
(* not invoked.                                                            *)
(***************************************************************************)
C5_InvalidJsonIs400 ==
  (pc = "done" /\ body.kind = "invalid") =>
    resp.status = 400 /\ resp.error = "Invalid JSON body" /\ aiCalls = 0

(***************************************************************************)
(* C6: the backend is invoked only with a trimmed, non-empty prompt of at  *)
(* most 800 characters; a missing, non-string or blank prompt is answered  *)
(* 400 and a trimmed prompt of more than 800 characters 413, neither with  *)
(* a backend call.                                                         *)
(***************************************************************************)
C6_PromptValidated ==
  /\ call.made =>
       /\ PromptPresent
       /\ call.prompt = Trim(body.prompt.s)
       /\ Len(call.prompt) <= 800
  /\ (pc = "done" /\ body.kind \in {"null", "object"} /\ ~PromptPresent) =>
       resp.status = 400 /\ aiCalls = 0
  /\ (pc = "done" /\ body.kind = "object" /\ PromptTooLong) =>
       resp.status = 413 /\ aiCalls = 0

(***************************************************************************)
(* C7: env.AI.run is invoked at most once per request; when it fails or is *)
(* cancelled it is not invoked again and the response is 500 with the      *)
(* error "Failed to generate image"; when it succeeds the response is 200. *)
(***************************************************************************)
C7_SingleInvocation ==
  /\ aiCalls <= 1
  /\ outcome \in {"rejected", "cancelled"} =>
       /\ pc = "done"
       /\ resp.status = 500
       /\ resp.error = "Failed to generate image"
  /\ outcome = "resolved" => pc = "done" /\ resp.status = 200

C7_Witness == outcome = "cancelled" /\ aiCalls = 1 /\ resp.status = 500

(***************************************************************************)
(* C8: when width and height are both integers in [256, 2048], the         *)
(* resolved pair is the given pair (first handler) or each value moved to  *)
(* a nearest multiple of 8 (second handler), whatever aspectRatio and      *)
(* longEdge are.                                                           *)
(***************************************************************************)
C8_ExplicitPairKept ==
  (call.made /\ PositiveInteger(body.width) /\ PositiveInteger(body.height)
   /\ InRange(body.width) /\ InRange(body.height)) =>
    IF variant = 1
    THEN call.width = body.width /\ call.height = body.height
    ELSE /\ NearestAligned(call.width, body.width)
         /\ NearestAligned(call.height, body.height)
         /\ InRange(call.width) /\ InRange(call.height)

C8_Witness ==
  /\ call.made /\ variant = 1
  /\ body.width = Num(1920) /\ body.height = Num(1080)
  /\ body.aspectRatio = Str("1:2") /\ body.longEdge = Num(4096)
  /\ call.width = Num(1920) /\ call.height = Num(1080)

(***************************************************************************)
(* The reference computation of the specification: the precedence rules,   *)
(* then the fallback to 1024 for a side that is not a positive number,     *)
(* then the clamp (and, for the second handler, the alignment to 8).       *)
(***************************************************************************)
RefRatio == Coalesce(parseAspectRatio(body.aspectRatio), Num(1))

RefLongEdge ==
  IF body.longEdge.t = "undefined" THEN Num(1024) ELSE Number(body.longEdge)

\* A side counts as given when it converts to a positive integer.
RefGiven(v) == IsInteger(Number(v)) /\ Positive(Number(v))

\* The pair before normalisation.
RefRaw ==
  IF RefGiven(body.width) /\ RefGiven(body.height)
  THEN <<Number(body.width), Number(body.height)>>
  ELSE IF RefGiven(body.width)
  THEN <<Number(body.width), Round(Div(Number(body.width), RefRatio))>>
  ELSE IF RefGiven(body.height)
  THEN <<Round(Mul(Number(body.height), RefRatio)), Number(body.height)>>
  ELSE IF Leq(Num(1), RefRatio)
  THEN <<RefLongEdge, Round(Div(RefLongEdge, RefRatio))>>
  ELSE <<Round(Mul(RefLongEdge, RefRatio)), RefLongEdge>>

RefClamp(i) == IF i < 256 THEN 256 ELSE IF i > 2048 THEN 2048 ELSE i

RefAlign(i) == ((i + 4) \div 8) * 8

\* Normalisation of an integer side x for handler v.
RefNorm(x, v) ==
  IF ~Positive(x) THEN Num(1024)
  ELSE IF v = 1 THEN Num(RefClamp(x.n))
  ELSE Num(RefAlign(RefClamp(x.n)))

\* Each sizing field is absent or a JSON number that is a positive integer.
CleanSizing ==
  /\ body.width.t = "undefined" \/ PositiveInteger(body.width)
  /\ body.height.t = "undefined" \/ PositiveInteger(body.height)
  /\ body.longEdge.t = "undefined" \/ PositiveInteger(body.longEdge)

\* A positive number that is no integer: the two handlers disagree on
\* whether such a side is given.
Fractional(v) ==
  IsFinite(Number(v)) /\ Positive(Number(v)) /\ ~IsInteger(Number(v))

(***************************************************************************)
(* C9: when width and height are not both given, the resolved pair is the  *)
(* reference computation, the derived side being computed from the given   *)
(* value before that value is clamped, followed by the normalisation.      *)
(* Stated for sizing fields that are absent or positive integers.          *)
(***************************************************************************)
C9_DerivedBeforeClamp ==
  (call.made /\ CleanSizing
   /\ ~(PositiveInteger(body.width) /\ PositiveInteger(body.height))) =>
    /\ call.width = RefNorm(RefRaw[1], variant)
    /\ call.height = RefNorm(RefRaw[2], variant)

(***************************************************************************)
(* C10: a side that the precedence and derivation steps leave not a        *)
(* positive number (zero, negative, NaN) comes out as the default 1024,    *)
(* not as the clamp bound, and no request with a valid prompt is failed    *)
(* over its sizing fields.  With a longEdge that is itself not a positive  *)
(* number, the statement is made of the side that carries longEdge; the    *)
(* side derived from such a longEdge is left open.                         *)
(***************************************************************************)
LongEdgeUsed == ~RefGiven(body.width) /\ ~RefGiven(body.height)

C10_FallbackIsDefault ==
  /\ (call.made /\ ~Fractional(body.width) /\ ~Fractional(body.height)) =>
       /\ (LongEdgeUsed /\ ~Positive(RefLongEdge)) =>
            IF Leq(Num(1), RefRatio) THEN call.width = Num(1024)
            ELSE call.height = Num(1024)
       /\ (~LongEdgeUsed \/ Positive(RefLongEdge)) =>
            /\ ~Positive(RefRaw[1]) => call.width = Num(1024)
            /\ ~Positive(RefRaw[2]) => call.height = Num(1024)
  /\ (pc = "done" /\ body.kind = "object" /\ PromptPresent /\ ~PromptTooLong) =>
       call.made

====
